---- MODULE Spec2Model ----
(***************************************************************************)
(* Model of godot-bevy/src/plugins/signals.rs: the bridge that forwards    *)
(* Godot signals into Bevy's ECS event stream.                             *)
(*                                                                         *)
(*   engine thread --emit--> universal closure --send--> mpsc FIFO         *)
(*   ECS frame: write_godot_signal_events (try_iter + write_batch)         *)
(*              --> Events<GodotSignal> --> event_update_system            *)
(*                                                                         *)
(* Fields named cb and eid in a record are history (ghost) fields: the     *)
(* index of the callback that built the record and the number of the       *)
(* emission that invoked it.  The program never reads them; they only let  *)
(* properties tell one record from another.                                *)
(***************************************************************************)
EXTENDS Naturals, Sequences, FiniteSets

VARIABLES
    eventRegistered,   \* add_event::<GodotSignal>() has run
    drainerScheduled,  \* write_godot_signal_events is in First, before event_update_system
    senderSlot,        \* NonSend resource GodotSignalSender: "absent" | "present" | "dropped"
    receiverSlot,      \* NonSend resource GodotSignalReader: "absent" | "present" | "dropped"
    callbacks,         \* the engine's signal table: callables in connection order
    nEmissions,        \* emissions started so far
    fifo,              \* records on the mpsc channel
    framePc,           \* position of the ECS frame
    events_a,          \* Events<GodotSignal>: the older buffer
    events_b,          \* Events<GodotSignal>: the buffer being written
    lastConnect,       \* what the most recent connect call gave its caller
    lastCall,          \* what the most recent closure invocation did
    produced,          \* history: every record a closure handed to send, in invocation order
    published,         \* history: every record written to Events<GodotSignal>, in order
    tickStart,         \* history: the FIFO as it was when the current drainer tick began
    connectCalls,      \* history: the arguments of every connect call the engine accepted
    emitLog,           \* history: per emission, its signal, its arguments, the connects before it
    freed              \* the nodes the engine has freed: their instance ids are stale

vars == << eventRegistered, drainerScheduled, senderSlot, receiverSlot, callbacks,
           nEmissions, fifo, framePc, events_a, events_b, lastConnect,
           lastCall, produced, published, tickStart, connectCalls, emitLog, freed >>

----------------------------------------------------------------------------
(* Bounds of the exploration. *)

MaxCallbacks == 2

MaxEmissions == 2

\* Longest argument list explored for the translator.
MaxArgs == 2

----------------------------------------------------------------------------
(* The environment: the engine's nodes and signals, and the inputs. *)

\* Instance ids a GodotNodeHandle may carry; those in LiveNodes resolve.
NodeIds == {1, 2, 3}

LiveNodes == {1, 2}

\* Signal names a caller may pass; DeclaredSignals(node) are those the node's
\* class declares (the two live nodes are of different classes).
SignalNames == {"ready", "tick", "nosuch"}

DeclaredSignals(node) == IF node = 1 THEN {"ready"} ELSE {"tick"}

\* Option<GodotSignalTarget>: None, Some(Node(handle)), Some(Entity(e)).
NoneTarget == [tag |-> "None", id |-> 0]

GodotSignalTarget == { [tag |-> "Node", id |-> 1], [tag |-> "Entity", id |-> 7] }

OptionTarget == {NoneTarget} \cup GodotSignalTarget

\* The explicit targets callers pass when they connect a signal of node: an
\* entity for the first node's signals, a node handle for the others'.
TargetsFor(node) ==
    IF node = 1 THEN { [tag |-> "Entity", id |-> 7] } ELSE { [tag |-> "Node", id |-> 1] }

\* Argument lists the engine passes when it emits a signal: "ready" is
\* declared without parameters, "tick" with one integer.
EmitArgs(signal_name) ==
    IF signal_name = "ready" THEN { << >> } ELSE { << [kind |-> "INT", val |-> 1] >> }

\* The variants the translator is explored on: one or more of every kind in
\* its table, an object that converts to Gd<Object> (instance id 99), one
\* that does not (val 0), and two kinds outside the table.
Variants ==
    { [kind |-> "NIL", val |-> 0], [kind |-> "BOOL", val |-> 0], [kind |-> "BOOL", val |-> 1],
      [kind |-> "INT", val |-> 0], [kind |-> "INT", val |-> 7], [kind |-> "FLOAT", val |-> 0],
      [kind |-> "STRING", val |-> 0], [kind |-> "VECTOR2", val |-> 0],
      [kind |-> "VECTOR3", val |-> 0], [kind |-> "OBJECT", val |-> 99],
      [kind |-> "OBJECT", val |-> 0], [kind |-> "ARRAY", val |-> 0],
      [kind |-> "DICTIONARY", val |-> 0] }

\* The argument slices (&[&Variant]) the engine may hand to the closure.
ArgLists == UNION { [1..n -> Variants] : n \in 0..MaxArgs }

----------------------------------------------------------------------------
(* Pure helpers. *)

Range(seq) == { seq[i] : i \in DOMAIN seq }

IsPrefix(s, t) == Len(s) <= Len(t) /\ SubSeq(t, 1, Len(s)) = s

----------------------------------------------------------------------------
(* The variant translator. *)

\* Variant::stringify for the variants explored.
stringify(variant) ==
    CASE variant.kind = "NIL" -> "<null>"
      [] variant.kind = "BOOL" -> IF variant.val = 0 THEN "false" ELSE "true"
      [] variant.kind = "INT" ->
            (CASE variant.val = 0 -> "0" [] variant.val = 1 -> "1" [] OTHER -> "7")
      [] variant.kind = "FLOAT" -> "3.5"
      [] variant.kind = "STRING" -> "ouch"
      [] variant.kind = "VECTOR2" -> "(0, 0)"
      [] variant.kind = "VECTOR3" -> "(0, 0, 0)"
      [] variant.kind = "OBJECT" ->
            IF variant.val = 0 THEN "<Object#null>" ELSE "<Object#99>"
      [] OTHER -> "[]"

\* variant.try_to::<Gd<Object>>().ok().map(|obj| obj.instance_id()):
\* 0 stands for None; a null object reference does not convert to Gd<Object>.
try_to_instance_id(variant) ==
    IF variant.val # 0 THEN variant.val ELSE 0

\* Mutation: the type name is only "Object" when the downcast succeeds.
variant_to_signal_argument_downcast(variant) ==
    LET type_name ==
            CASE variant.kind = "NIL" -> "Nil"
              [] variant.kind = "BOOL" -> "Bool"
              [] variant.kind = "INT" -> "Int"
              [] variant.kind = "FLOAT" -> "Float"
              [] variant.kind = "STRING" -> "String"
              [] variant.kind = "VECTOR2" -> "Vector2"
              [] variant.kind = "VECTOR3" -> "Vector3"
              [] variant.kind = "OBJECT" /\ try_to_instance_id(variant) # 0 -> "Object"
              [] OTHER -> "Unknown"
        value == stringify(variant)
        instance_id ==
            IF variant.kind = "OBJECT" THEN try_to_instance_id(variant) ELSE 0
    IN  [type_name |-> type_name, value |-> value, instance_id |-> instance_id]

\* Mutation: the id is extracted without the test for the OBJECT kind.
variant_to_signal_argument_anyid(variant) ==
    LET type_name ==
            CASE variant.kind = "NIL" -> "Nil"
              [] variant.kind = "BOOL" -> "Bool"
              [] variant.kind = "INT" -> "Int"
              [] variant.kind = "FLOAT" -> "Float"
              [] variant.kind = "STRING" -> "String"
              [] variant.kind = "VECTOR2" -> "Vector2"
              [] variant.kind = "VECTOR3" -> "Vector3"
              [] variant.kind = "OBJECT" -> "Object"
              [] OTHER -> "Unknown"
        value == stringify(variant)
        instance_id == try_to_instance_id(variant)
    IN  [type_name |-> type_name, value |-> value, instance_id |-> instance_id]

\* variant_to_signal_argument: the type name from the kind, the value from
\* stringify, the instance id only for an OBJECT that converts.
variant_to_signal_argument(variant) ==
    LET type_name ==
            CASE variant.kind = "NIL" -> "Nil"
              [] variant.kind = "BOOL" -> "Bool"
              [] variant.kind = "INT" -> "Int"
              [] variant.kind = "FLOAT" -> "Float"
              [] variant.kind = "STRING" -> "String"
              [] variant.kind = "VECTOR2" -> "Vector2"
              [] variant.kind = "VECTOR3" -> "Vector3"
              [] variant.kind = "OBJECT" -> "Object"
              [] OTHER -> "Unknown"
        value == stringify(variant)
        instance_id ==
            IF variant.kind = "OBJECT" THEN try_to_instance_id(variant) ELSE 0
    IN  [type_name |-> type_name, value |-> value, instance_id |-> instance_id]

\* Mutation: the arguments are collected in reverse.
translate_arguments_rev(args) ==
    [ i \in 1..Len(args) |-> variant_to_signal_argument(args[Len(args) + 1 - i]) ]

\* args.iter().map(|&arg| variant_to_signal_argument(arg)).collect()
translate_arguments(args) ==
    [ i \in 1..Len(args) |-> variant_to_signal_argument(args[i]) ]

----------------------------------------------------------------------------
(* The universal closure built by connect_godot_signal. *)

\* Mutation: the handle is built from the node of the latest connection
\* instead of the id this closure captured.
from_instance_id_last(node_id) == [instance_id |-> callbacks[Len(callbacks)].node_id]

\* GodotNodeHandle::from_instance_id: wraps the id, resolves nothing.
from_instance_id(node_id) == [instance_id |-> node_id]

\* Mutation: the captured target is ignored and the origin always used.
target_handle_default(signal_target, origin_handle) ==
    [tag |-> "Node", id |-> origin_handle.instance_id]

\* Mutation: the target is read from the latest connection when the closure
\* runs instead of from what this closure captured.
target_handle_latest(signal_target, origin_handle) ==
    IF callbacks[Len(callbacks)].signal_target.tag = "None"
    THEN [tag |-> "Node", id |-> origin_handle.instance_id]
    ELSE callbacks[Len(callbacks)].signal_target

\* signal_target.clone().unwrap_or_else(|| GodotSignalTarget::Node(origin_handle.clone()))
target_handle(signal_target, origin_handle) ==
    IF signal_target.tag = "None"
    THEN [tag |-> "Node", id |-> origin_handle.instance_id]
    ELSE signal_target

\* The GodotSignal the closure of callback number c builds for `args`.
closure_record(c, args, eid) ==
    LET captured == callbacks[c]
        arguments == translate_arguments(args)
        origin_handle == from_instance_id(captured.node_id)
    IN  [ name |-> captured.signal_name_copy,
          origin |-> origin_handle,
          target |-> target_handle(captured.signal_target, origin_handle),
          arguments |-> arguments,
          cb |-> c,
          eid |-> eid ]

\* Mutation: a stack instead of a queue.
send_lifo(queue, record) ==
    IF receiverSlot = "present"
    THEN [ok |-> TRUE, queue |-> << record >> \o queue]
    ELSE [ok |-> FALSE, queue |-> queue]

\* Sender::send: enqueues unless the receiver has been dropped.
send(queue, record) ==
    IF receiverSlot = "present"
    THEN [ok |-> TRUE, queue |-> Append(queue, record)]
    ELSE [ok |-> FALSE, queue |-> queue]

\* Mutation: the send error is propagated (`send(..).map_err(|_| ())?`).
closure_result_propagate(sent) == IF sent.ok THEN "Ok(Nil)" ELSE "Err"

\* What the closure returns to the engine: `let _ = send(..); Ok(Variant::nil())`.
closure_result(sent) == "Ok(Nil)"

----------------------------------------------------------------------------
(* Initial state: nothing installed, no channel, no callback. *)

Init ==
    /\ eventRegistered = FALSE
    /\ drainerScheduled = FALSE
    /\ senderSlot = "absent"
    /\ receiverSlot = "absent"
    /\ callbacks = << >>
    /\ nEmissions = 0
    /\ fifo = << >>
    /\ framePc = "idle"
    /\ events_a = << >>
    /\ events_b = << >>
    /\ lastConnect = "none"
    /\ lastCall = [ret |-> "none", sent |-> FALSE]
    /\ produced = << >>
    /\ published = << >>
    /\ tickStart = << >>
    /\ connectCalls = << >>
    /\ emitLog = << >>
    /\ freed = {}

----------------------------------------------------------------------------
(* Plugin installation and the host's channel resources. *)

\* Mutation: add_event::<GodotSignal>() is forgotten.
GodotSignalsPlugin_build_noevent ==
    /\ ~drainerScheduled
    /\ drainerScheduled' = TRUE
    /\ UNCHANGED << eventRegistered, senderSlot, receiverSlot, callbacks, nEmissions, fifo, framePc, events_a, events_b, lastConnect, lastCall,
                    produced, published, tickStart, connectCalls, emitLog, freed >>

\* GodotSignalsPlugin::build: schedules the drainer and registers the event.
GodotSignalsPlugin_build ==
    /\ ~drainerScheduled
    /\ drainerScheduled' = TRUE
    /\ eventRegistered' = TRUE
    /\ UNCHANGED << senderSlot, receiverSlot, callbacks, nEmissions, fifo,
                    framePc, events_a, events_b, lastConnect, lastCall, produced,
                    published, tickStart,
                    connectCalls, emitLog, freed >>

\* The host creates the channel and inserts GodotSignalSender and
\* GodotSignalReader as non-send resources.
InsertChannelResources ==
    /\ senderSlot = "absent"
    /\ receiverSlot = "absent"
    /\ senderSlot' = "present"
    /\ receiverSlot' = "present"
    /\ UNCHANGED << eventRegistered, drainerScheduled, callbacks, nEmissions,
                    fifo, framePc, events_a, events_b, lastConnect, lastCall, produced,
                    published, tickStart,
                    connectCalls, emitLog, freed >>

\* Host tear-down: the world and its resources are dropped; dropping the
\* Receiver discards what is still queued.  Callables in the engine's signal
\* table keep their Sender clones.  The world is not dropped while one of
\* its systems runs, so this happens between frames.
DropReceiver ==
    /\ receiverSlot = "present"
    /\ framePc = "idle"
    /\ receiverSlot' = "dropped"
    /\ senderSlot' = "dropped"
    /\ fifo' = << >>
    /\ UNCHANGED << eventRegistered, drainerScheduled, callbacks, nEmissions,
                    framePc, events_a, events_b, lastConnect, lastCall, produced,
                    published, tickStart,
                    connectCalls, emitLog, freed >>

----------------------------------------------------------------------------
(* The connector. *)

\* GodotNodeHandle::get::<Node>(): the handle resolves iff its node is live.
node_get(node) == node \in LiveNodes \ freed

\* Object::connect of the engine: the Error value it returns.
engine_connect(node, signal_name) ==
    IF signal_name \in DeclaredSignals(node) THEN "OK" ELSE "ERR_INVALID_PARAMETER"

\* Mutation: a second connection to the same signal of the same node is merged.
install_dedup(table, callable) ==
    IF \E c \in DOMAIN table : /\ table[c].node_id = callable.node_id
                                /\ table[c].signal_name_copy = callable.signal_name_copy
    THEN table
    ELSE Append(table, callable)

\* node.connect(signal_name, &callable) on a declared signal: the engine adds
\* the callable to the signal's connections.  Every call makes a new callable,
\* and the engine compares custom callables by identity, so none is merged.
install(table, callable) == Append(table, callable)

\* History: a connect call with these arguments, if the engine accepts it.
LogConnect(node, signal_name, target) ==
    IF node_get(node) /\ signal_name \in DeclaredSignals(node)
    THEN Append(connectCalls, [node |-> node, signal_name |-> signal_name, target |-> target])
    ELSE connectCalls

\* Mutation: the callable is attached without the node having been resolved.
connect_godot_signal_unchecked(node, signal_name, signal_target) ==
    /\ senderSlot = "present"
    /\ lastConnect' = IF node_get(node) THEN "returned" ELSE "resolve_error"
    /\ IF signal_name \in {"ready", "tick"}
       THEN /\ Len(callbacks) < MaxCallbacks
            /\ callbacks' = Append(callbacks,
                               [ node_id |-> node,
                                 signal_name_copy |-> signal_name,
                                 signal_target |-> signal_target ])
       ELSE UNCHANGED callbacks
    /\ UNCHANGED << eventRegistered, drainerScheduled, senderSlot, receiverSlot, nEmissions, fifo, framePc, events_a, events_b, lastCall, produced,
                    published, tickStart, emitLog, freed >>

\* Mutation: the new closure is run once when it is connected.
connect_godot_signal_eager(node, signal_name, signal_target) ==
    /\ senderSlot = "present"
    /\ IF ~node_get(node)
       THEN /\ lastConnect' = "resolve_error"
            /\ UNCHANGED << callbacks, fifo, produced >>
       ELSE /\ lastConnect' = "returned"
            /\ IF engine_connect(node, signal_name) = "OK"
               THEN /\ Len(callbacks) < MaxCallbacks
                    /\ callbacks' = install(callbacks,
                                       [ node_id |-> node,
                                         signal_name_copy |-> signal_name,
                                         signal_target |-> signal_target ])
                    /\ fifo' = Append(fifo, [ name |-> signal_name,
                                              origin |-> from_instance_id(node),
                                              target |-> target_handle(signal_target,
                                                             from_instance_id(node)),
                                              arguments |-> << >>,
                                              cb |-> Len(callbacks) + 1,
                                              eid |-> 0 ])
                    /\ produced' = produced
               ELSE UNCHANGED << callbacks, fifo, produced >>
    /\ UNCHANGED << eventRegistered, drainerScheduled, senderSlot, receiverSlot, nEmissions,
                    framePc, events_a, events_b, lastCall, published, tickStart, emitLog,
                    freed >>

\* connect_godot_signal(node, signal_name, signal_sender, signal_target).
\* The function returns (): the Error of node.connect is dropped.
connect_godot_signal(node, signal_name, signal_target) ==
    /\ senderSlot = "present"
    /\ IF ~node_get(node)
       THEN /\ lastConnect' = "resolve_error"
            /\ UNCHANGED callbacks
       ELSE /\ lastConnect' = "returned"
            /\ IF engine_connect(node, signal_name) = "OK"
               THEN /\ Len(callbacks) < MaxCallbacks
                    /\ callbacks' = install(callbacks,
                                       [ node_id |-> node,
                                         signal_name_copy |-> signal_name,
                                         signal_target |-> signal_target ])
               ELSE UNCHANGED callbacks
    /\ UNCHANGED << eventRegistered, drainerScheduled, senderSlot, receiverSlot, nEmissions, fifo, framePc, events_a, events_b, lastCall, produced,
                    published, tickStart,
                    emitLog, freed >>

\* GodotSignals::connect
connect(node, signal_name) ==
    /\ connect_godot_signal(node, signal_name, NoneTarget)
    /\ connectCalls' = LogConnect(node, signal_name, NoneTarget)

\* GodotSignals::connect_to_target
connect_to_target(node, signal_name, target) ==
    /\ connect_godot_signal(node, signal_name, target)
    /\ connectCalls' = LogConnect(node, signal_name, target)

----------------------------------------------------------------------------
(* The engine emitting signals. *)

\* Mutation: an emission calls every callable in the table, whatever signal
\* it was connected to.
ConnectedTo_all(node, signal_name) == [ c \in 1..Len(callbacks) |-> c ]

\* The callables connected to signal_name of node, in connection order
\* (the snapshot of the signal table the engine iterates on emit).
ConnectedTo(node, signal_name) ==
    LET Hit(c) == /\ callbacks[c].node_id = node
                  /\ callbacks[c].signal_name_copy = signal_name
    IN  SelectSeq([c \in 1..Len(callbacks) |-> c], Hit)

\* History: how many accepted connect calls named signal_name of node so far.
ConnectsOn(node, signal_name) ==
    Cardinality({ i \in DOMAIN connectCalls :
                    /\ connectCalls[i].node = node
                    /\ connectCalls[i].signal_name = signal_name })

\* Mutation: the closure resolves its node first and gives up when the id
\* is stale.
closure_records_resolving(pending, args, eid) ==
    IF \E i \in DOMAIN pending : ~node_get(callbacks[pending[i]].node_id)
    THEN << >>
    ELSE [ i \in 1..Len(pending) |-> closure_record(pending[i], args, eid) ]

\* The records the closures of the callables in `pending` build, in order.
closure_records(pending, args, eid) ==
    [ i \in 1..Len(pending) |-> closure_record(pending[i], args, eid) ]

RECURSIVE send_all(_, _)
\* Each closure in turn hands its record to its Sender clone.
send_all(queue, records) ==
    IF records = << >> THEN queue
    ELSE send_all(send(queue, Head(records)).queue, Tail(records))

\* The engine emits signal_name on node with args: it calls every callable
\* connected to the signal, in connection order, each call one run of the
\* universal closure (translate, build the record, send, return Nil).  The
\* callables are made with Callable::from_local_fn, so they run on the thread
\* that connected them and an emission walks its connections in one piece.
EmitSignal(node, signal_name, args) ==
    /\ nEmissions < MaxEmissions
    /\ node \in LiveNodes
    /\ signal_name \in DeclaredSignals(node)
    /\ nEmissions' = nEmissions + 1
    /\ emitLog' = Append(emitLog, [ node |-> node, signal_name |-> signal_name,
                                    args |-> args,
                                    nconn |-> ConnectsOn(node, signal_name),
                                    stale |-> node \in freed ])
    /\ LET records == closure_records(ConnectedTo(node, signal_name), args, nEmissions + 1)
       IN  /\ fifo' = send_all(fifo, records)
           /\ produced' = produced \o records
           /\ lastCall' = IF records = << >> THEN lastCall
                          ELSE [ ret |-> closure_result(send(fifo, Head(records))),
                                 sent |-> send(fifo, Head(records)).ok ]
    /\ UNCHANGED << eventRegistered, drainerScheduled, senderSlot, receiverSlot, callbacks,
                    framePc, events_a, events_b, lastConnect, published, tickStart,
                    connectCalls, freed >>

----------------------------------------------------------------------------
(* The ECS frame: First (drainer, then event rotation), then user systems. *)

\* The schedule reaches write_godot_signal_events, which needs its receiver.
FrameStart ==
    /\ framePc = "idle"
    /\ drainerScheduled
    /\ receiverSlot = "present"
    /\ framePc' = "drain"
    /\ tickStart' = fifo
    /\ UNCHANGED << eventRegistered, drainerScheduled, senderSlot, receiverSlot, callbacks,
                    nEmissions, fifo, events_a, events_b, lastConnect, lastCall,
                    produced, published,
                    connectCalls, emitLog, freed >>

\* Mutation: the record taken off the channel is not written.
DrainStep_lossy ==
    /\ framePc = "drain"
    /\ fifo # << >>
    /\ fifo' = Tail(fifo)
    /\ UNCHANGED << eventRegistered, drainerScheduled, senderSlot, receiverSlot, callbacks,
                    nEmissions, framePc, events_a, events_b, lastConnect,
                    lastCall, produced, published, tickStart, connectCalls, emitLog, freed >>

\* Mutation: the record is written but left on the channel.
DrainStep_peek ==
    /\ framePc = "drain"
    /\ fifo # << >>
    /\ fifo' = fifo
    /\ events_b' = Append(events_b, Head(fifo))
    /\ published' = Append(published, Head(fifo))
    /\ UNCHANGED << eventRegistered, drainerScheduled, senderSlot, receiverSlot, callbacks,
                    nEmissions, framePc, events_a, lastConnect, lastCall,
                    produced, tickStart, connectCalls, emitLog, freed >>

\* write_batch(try_iter()): try_recv yields a record, which is written.
DrainStep ==
    /\ framePc = "drain"
    /\ fifo # << >>
    /\ fifo' = Tail(fifo)
    /\ events_b' = Append(events_b, Head(fifo))
    /\ published' = Append(published, Head(fifo))
    /\ UNCHANGED << eventRegistered, drainerScheduled, senderSlot, receiverSlot, callbacks,
                    nEmissions, framePc, events_a, lastConnect, lastCall,
                    produced, tickStart,
                    connectCalls, emitLog, freed >>

\* Mutation: the system may return while records are still queued.
DrainEnd_early ==
    /\ framePc = "drain"
    /\ framePc' = "rotate"
    /\ UNCHANGED << eventRegistered, drainerScheduled, senderSlot, receiverSlot, callbacks,
                    nEmissions, fifo, events_a, events_b, lastConnect, lastCall,
                    produced, published, tickStart, connectCalls, emitLog, freed >>

\* Mutation: iter() instead of try_iter(): on an empty channel the system
\* waits until every Sender is gone.
DrainEnd_blocking ==
    /\ framePc = "drain"
    /\ fifo = << >>
    /\ senderSlot = "dropped"
    /\ callbacks = << >>
    /\ framePc' = "rotate"
    /\ UNCHANGED << eventRegistered, drainerScheduled, senderSlot, receiverSlot, callbacks,
                    nEmissions, fifo, events_a, events_b, lastConnect, lastCall,
                    produced, published, tickStart, connectCalls, emitLog, freed >>

\* write_batch(try_iter()): try_recv finds the channel empty; the system returns.
DrainEnd ==
    /\ framePc = "drain"
    /\ fifo = << >>
    /\ framePc' = "rotate"
    /\ UNCHANGED << eventRegistered, drainerScheduled, senderSlot, receiverSlot, callbacks,
                    nEmissions, fifo, events_a, events_b, lastConnect, lastCall,
                    produced, published, tickStart,
                    connectCalls, emitLog, freed >>

\* Mutation: the write buffer is cleared without the swap.
event_update_system_noswap ==
    /\ framePc = "rotate"
    /\ events_b' = << >>
    /\ framePc' = "idle"
    /\ tickStart' = << >>
    /\ UNCHANGED << eventRegistered, drainerScheduled, senderSlot, receiverSlot, callbacks,
                    nEmissions, fifo, events_a, lastConnect, lastCall, produced, published,
                    connectCalls, emitLog, freed >>

\* event_update_system: the buffers swap and the new write buffer is cleared;
\* First is over and the rest of the frame (the user systems) follows.
event_update_system ==
    /\ framePc = "rotate"
    /\ events_a' = events_b
    /\ events_b' = << >>
    /\ framePc' = "idle"
    /\ tickStart' = << >>
    /\ UNCHANGED << eventRegistered, drainerScheduled, senderSlot, receiverSlot, callbacks,
                    nEmissions, fifo, lastConnect, lastCall, produced, published,
                    connectCalls, emitLog, freed >>

Frame == FrameStart \/ DrainStep \/ DrainEnd \/ event_update_system

----------------------------------------------------------------------------

Next ==
    \/ GodotSignalsPlugin_build
    \/ InsertChannelResources
    \/ DropReceiver
    \/ \E node \in NodeIds, signal_name \in SignalNames : connect(node, signal_name)
    \/ \E node \in NodeIds, signal_name \in SignalNames :
          \E target \in TargetsFor(node) : connect_to_target(node, signal_name, target)
    \/ \E node \in NodeIds, signal_name \in SignalNames :
          \E args \in EmitArgs(signal_name) : EmitSignal(node, signal_name, args)
    \/ FrameStart
    \/ DrainStep
    \/ DrainEnd
    \/ event_update_system

Spec == Init /\ [][Next]_vars

\* The frame loop keeps running and the plugin gets installed.
LiveSpec == Spec /\ WF_vars(Frame) /\ WF_vars(GodotSignalsPlugin_build)

----------------------------------------------------------------------------
(* Nodes going away.  The bridge is wired (plugin built, channel inserted); *)
(* callers connect through GodotSignals::connect, the engine emits, frames  *)
(* run, and the engine frees nodes.                                         *)
(* A freed node's instance id no longer resolves, while the callables in    *)
(* its signal table are still called for what it emits on its way out.      *)

StaleInit ==
    /\ eventRegistered = TRUE
    /\ drainerScheduled = TRUE
    /\ senderSlot = "present"
    /\ receiverSlot = "present"
    /\ callbacks = << >>
    /\ nEmissions = 0
    /\ fifo = << >>
    /\ framePc = "idle"
    /\ events_a = << >>
    /\ events_b = << >>
    /\ lastConnect = "none"
    /\ lastCall = [ret |-> "none", sent |-> FALSE]
    /\ produced = << >>
    /\ published = << >>
    /\ tickStart = << >>
    /\ connectCalls = << >>
    /\ emitLog = << >>
    /\ freed = {}

\* The engine frees a live node.
FreeNode(node) ==
    /\ node_get(node)
    /\ freed' = freed \cup {node}
    /\ UNCHANGED << eventRegistered, drainerScheduled, senderSlot, receiverSlot, callbacks,
                    nEmissions, fifo, framePc, events_a, events_b, lastConnect, lastCall,
                    produced, published, tickStart, connectCalls, emitLog >>

StaleNext ==
    \/ \E node \in NodeIds, signal_name \in SignalNames : connect(node, signal_name)
    \/ \E node \in NodeIds, signal_name \in SignalNames :
          \E args \in EmitArgs(signal_name) : EmitSignal(node, signal_name, args)
    \/ \E node \in NodeIds : FreeNode(node)
    \/ FrameStart
    \/ DrainStep
    \/ DrainEnd
    \/ event_update_system

StaleSpec == StaleInit /\ [][StaleNext]_vars

----------------------------------------------------------------------------
(* The translator explored on its own: the bridge is wired, one callable is *)
(* connected to "tick" of node 2 through GodotSignals::connect, and the     *)
(* engine emits the signal once with any argument list; frames then publish *)
(* the record.                                                              *)

TranslateInit ==
    /\ eventRegistered = TRUE
    /\ drainerScheduled = TRUE
    /\ senderSlot = "present"
    /\ receiverSlot = "present"
    /\ callbacks = << [ node_id |-> 2, signal_name_copy |-> "tick",
                        signal_target |-> NoneTarget ] >>
    /\ nEmissions = 0
    /\ fifo = << >>
    /\ framePc = "idle"
    /\ events_a = << >>
    /\ events_b = << >>
    /\ lastConnect = "returned"
    /\ lastCall = [ret |-> "none", sent |-> FALSE]
    /\ produced = << >>
    /\ published = << >>
    /\ tickStart = << >>
    /\ connectCalls = << [node |-> 2, signal_name |-> "tick", target |-> NoneTarget] >>
    /\ emitLog = << >>
    /\ freed = {}

\* The closure is variadic: the engine passes it whatever the emitter gave.
EmitTick(args) ==
    /\ nEmissions = 0
    /\ EmitSignal(2, "tick", args)

TranslateNext ==
    \/ \E args \in ArgLists : EmitTick(args)
    \/ FrameStart
    \/ DrainStep
    \/ DrainEnd
    \/ event_update_system

TranslateSpec == TranslateInit /\ [][TranslateNext]_vars

----------------------------------------------------------------------------
(* Properties. *)

Callbacks == 1..MaxCallbacks

Emissions == 1..MaxEmissions

\* The records of callback c in seq, in order.
Of(seq, c) ==
    LET Mine(r) == r.cb = c
    IN  SelectSeq(seq, Mine)

\* How many times the record of callback c for emission e occurs in seq.
Count(seq, c, e) ==
    Cardinality({ i \in DOMAIN seq : seq[i].cb = c /\ seq[i].eid = e })

IsSuffix(s, t) == Len(s) <= Len(t) /\ SubSeq(t, Len(t) - Len(s) + 1, Len(t)) = s

\* Every record a closure has built so far is in the event stream's log once.
AllDelivered ==
    \A i \in DOMAIN produced : Count(published, produced[i].cb, produced[i].eid) = 1

\* C1: every invocation of an installed callback puts exactly one GodotSignal
\* into the ECS event stream: never two, and, while frames keep running,
\* eventually one, unless the receiver is dropped before the record is drained
\* (then none).  The log only grows, so "again and again everything built so
\* far is delivered" gives "each record is eventually delivered".
C1_ExactlyOneRecord ==
    /\ [](\A c \in Callbacks, e \in Emissions :
            /\ Count(produced, c, e) <= 1
            /\ Count(published, c, e) <= Count(produced, c, e))
    /\ []<>(AllDelivered \/ receiverSlot = "dropped")

\* Two callbacks were invoked by one emission and both records are published.
C1_Witness ==
    /\ receiverSlot = "present"
    /\ Len(published) >= 2
    /\ published[1].eid = published[2].eid
    /\ published[1].cb # published[2].cb
    /\ Count(published, published[1].cb, published[1].eid) = 1

\* C2: the records of each callback reach the ECS event stream in the order
\* in which that callback was invoked, whatever the interleaving with other
\* callbacks and with drainer ticks, within a frame and across frames.
C2_PerCallbackOrder ==
    /\ \A c \in Callbacks : IsPrefix(Of(published, c), Of(produced, c))
    /\ receiverSlot = "present" =>
          \A c \in Callbacks : Of(published \o fifo, c) = Of(produced, c)
    /\ IsSuffix(events_a \o events_b, published)

\* A callback has one record in last frame's buffer and a later one in this
\* frame's, with a record of another callback published between them.
C2_Witness ==
    \E i \in DOMAIN events_a, j \in DOMAIN events_b, k \in DOMAIN published :
        /\ events_a[i].cb = events_b[j].cb
        /\ events_a[i].eid < events_b[j].eid
        /\ published[k].cb # events_a[i].cb
        /\ Of(published, events_a[i].cb) = << events_a[i], events_b[j] >>

\* C3: when a drainer tick ends, every record that was on the FIFO when the
\* tick began has been written to the event stream by that tick.
C3_TickDrainsAll ==
    framePc = "rotate" =>
        /\ \A i \in DOMAIN tickStart : tickStart[i] \in Range(events_b)
        /\ \A i \in DOMAIN tickStart : tickStart[i] \in Range(published)
        /\ \A i \in DOMAIN tickStart : tickStart[i] \notin Range(fifo)

\* A tick that began with two records queued has ended.
C3_Witness ==
    /\ framePc = "rotate"
    /\ Len(tickStart) >= 2

\* C4: the target of every record is the target given to the connect call
\* that installed its callback, or, when the call gave none, the node whose
\* instance id is the record's origin.
C4_TargetRouting ==
    \A i \in DOMAIN produced :
        LET r == produced[i]
            given == connectCalls[r.cb].target
        IN  IF given # NoneTarget
            THEN r.target = given
            ELSE r.target = [tag |-> "Node", id |-> r.origin.instance_id]

\* One record with an explicit Entity target and one with the default target
\* have been published.
C4_Witness ==
    \E i, j \in DOMAIN published :
        /\ connectCalls[published[i].cb].target = [tag |-> "Entity", id |-> 7]
        /\ published[i].target = [tag |-> "Entity", id |-> 7]
        /\ connectCalls[published[j].cb].target = NoneTarget
        /\ published[j].target = [tag |-> "Node", id |-> published[j].origin.instance_id]

\* C5: the origin of every record carries the instance id of the node given
\* to the connect call that installed its callback, whatever other connects
\* were made before or after.
C5_OriginIsConnectedNode ==
    \A i \in DOMAIN produced :
        produced[i].origin.instance_id = connectCalls[produced[i].cb].node

\* The first callback was invoked after a second one had been connected to
\* another node, and both have produced a record.
C5_Witness ==
    /\ Len(connectCalls) = 2
    /\ connectCalls[1].node # connectCalls[2].node
    /\ \E i, j \in DOMAIN produced :
          /\ i < j
          /\ produced[i].cb = 2
          /\ produced[j].cb = 1
          /\ produced[j].origin.instance_id = connectCalls[1].node

\* C6: every accepted connect call installs exactly one callback, none is
\* merged with an earlier one: an emission of a signal produces as many
\* records as connect calls had named that signal of that node.
C6_NoDeduplication ==
    /\ Len(callbacks) = Len(connectCalls)
    /\ \A e \in DOMAIN emitLog :
          Cardinality({ i \in DOMAIN produced : produced[i].eid = e }) = emitLog[e].nconn

\* An emission on a signal connected twice has produced two records.
C6_Witness ==
    \E e \in DOMAIN emitLog :
        /\ emitLog[e].nconn = 2
        /\ Cardinality({ i \in DOMAIN produced : produced[i].eid = e }) = 2

\* C7: with the receiver dropped, an invocation of the closure fails to send
\* without effect: it returns Nil to the engine, and
\* the FIFO, the event stream and the rest of the bridge are unchanged.
C7_SendAfterDropIsSilent ==
    [][ (produced' # produced /\ receiverSlot = "dropped") =>
            /\ lastCall' = [ret |-> "Ok(Nil)", sent |-> FALSE]
            /\ UNCHANGED << fifo, events_a, events_b, published, callbacks, senderSlot,
                            receiverSlot, eventRegistered, drainerScheduled, framePc,
                            lastConnect, tickStart, connectCalls >> ]_vars

\* A closure ran after the receiver was dropped.
C7_Witness ==
    /\ receiverSlot = "dropped"
    /\ lastCall = [ret |-> "Ok(Nil)", sent |-> FALSE]
    /\ Len(produced) > Len(published)
    /\ fifo = << >>

\* C8: a connect call whose node handle does not resolve ends in the
\* resolution failure, not in a normal return, and installs nothing: no
\* callback is ever attached to a node that is not live.
C8_UnresolvedNodeFailsFast ==
    /\ [][ \A node \in NodeIds \ LiveNodes, signal_name \in SignalNames,
              target \in OptionTarget :
              connect_godot_signal(node, signal_name, target) =>
                  /\ lastConnect' = "resolve_error"
                  /\ callbacks' = callbacks ]_vars
    /\ [](\A c \in DOMAIN callbacks : callbacks[c].node_id \in LiveNodes)

\* A connect on an unresolvable handle has failed while a callback installed
\* earlier is in place.
C8_Witness ==
    /\ lastConnect = "resolve_error"
    /\ Len(callbacks) = 1
    /\ Len(connectCalls) = 1

\* C9: a connect call naming a signal the resolved node does not declare ends
\* in an outcome the caller can tell from success.
C9_ConnectErrorSurfaced ==
    [][ \A node \in LiveNodes, signal_name \in SignalNames, target \in OptionTarget :
           ( /\ connect_godot_signal(node, signal_name, target)
             /\ engine_connect(node, signal_name) # "OK" )
              => lastConnect' # "returned" ]_vars

C11_ReadableInSameFrame ==
    /\ [][ framePc' = "rotate" => (framePc = "drain" \/ framePc = "rotate") ]_vars
    /\ [][ (framePc = "rotate" /\ framePc' = "idle") =>
              /\ \A i \in DOMAIN tickStart : tickStart[i] \in Range(events_b)
              /\ \A i \in DOMAIN events_b : events_b[i] \in Range(events_a' \o events_b') ]_vars
    /\ [][ events_a' # events_a => (framePc = "rotate" /\ framePc' = "idle") ]_vars

\* A record emitted after one frame's tick was drained by the next frame's
\* tick and is readable after that frame's rotation.
C11_Witness ==
    /\ framePc = "idle"
    /\ Len(events_a) = 1
    /\ Len(published) = 2
    /\ events_a[1] = published[2]
    /\ published[1].eid < published[2].eid
    /\ fifo = << >>

C16_TickEffect ==
    /\ [][ (framePc = "drain" /\ framePc' = "rotate") =>
              /\ fifo = << >>
              /\ UNCHANGED << fifo, events_a, events_b, published, produced, callbacks,
                              senderSlot, receiverSlot, tickStart >> ]_vars
    /\ [][ published' # published =>
              /\ framePc = "drain"
              /\ fifo # << >>
              /\ fifo' = Tail(fifo)
              /\ published' = Append(published, Head(fifo))
              /\ events_b' = Append(events_b, Head(fifo)) ]_vars
    /\ []((framePc = "drain" \/ framePc = "rotate") => IsPrefix(tickStart, events_b \o fifo))
    /\ []((framePc = "rotate" /\ Len(events_b) <= Len(tickStart)) => events_b = tickStart)
    /\ [](\A i, j \in DOMAIN published : i # j => published[i] # published[j])

\* Two ticks have run with no send meanwhile: the second published exactly
\* what was pending at its start, the first published other records.
C16_Witness ==
    /\ framePc = "rotate"
    /\ tickStart # << >>
    /\ events_b = tickStart
    /\ fifo = << >>
    /\ Len(published) > Len(events_b)

\* C18: what a callback captured at connect time never changes, so all the
\* records one callback produces carry the same name, origin and target, and
\* the target is the one of its own connect call, whatever targets later
\* connect calls on the same signal of the same node gave.
C18_RoutingFixedPerConnection ==
    /\ [][ \A c \in DOMAIN callbacks :
              c \in DOMAIN callbacks' /\ callbacks'[c] = callbacks[c] ]_vars
    /\ [](\A i, j \in DOMAIN produced :
             produced[i].cb = produced[j].cb =>
                 /\ produced[i].name = produced[j].name
                 /\ produced[i].origin = produced[j].origin
                 /\ produced[i].target = produced[j].target)
    /\ [](\A i \in DOMAIN produced :
             IF connectCalls[produced[i].cb].target = NoneTarget
             THEN produced[i].target =
                      [tag |-> "Node", id |-> connectCalls[produced[i].cb].node]
             ELSE produced[i].target = connectCalls[produced[i].cb].target)

\* The first callback produced a record, then a second connect on the same
\* signal of the same node gave another target, and the next emission made
\* one record per callback, each with its own target.
C18_Witness ==
    /\ Len(connectCalls) = 2
    /\ connectCalls[1].node = connectCalls[2].node
    /\ connectCalls[1].signal_name = connectCalls[2].signal_name
    /\ connectCalls[1].target # connectCalls[2].target
    /\ Len(produced) = 3
    /\ produced[1].cb = 1 /\ produced[1].eid = 1
    /\ produced[2].cb = 1 /\ produced[2].eid = 2
    /\ produced[3].cb = 2 /\ produced[3].eid = 2
    /\ produced[1].target = produced[2].target
    /\ produced[2].target # produced[3].target

\* The records on the FIFO and in the event stream.
InFlight == Range(fifo) \cup Range(events_a) \cup Range(events_b) \cup Range(published)

\* C19: every record on the FIFO or in the event stream was built by an
\* installed callback for an emission of the very signal of the very node
\* the callback was connected to, and carries the signal name of that connect
\* call; an emission of a signal nothing is connected to makes no record.
C19_NoSpuriousRecords ==
    /\ \A r \in InFlight \cup Range(produced) :
          /\ r.cb \in DOMAIN connectCalls
          /\ r.cb \in DOMAIN callbacks
          /\ r.eid \in DOMAIN emitLog
          /\ emitLog[r.eid].node = connectCalls[r.cb].node
          /\ emitLog[r.eid].signal_name = connectCalls[r.cb].signal_name
          /\ r.name = connectCalls[r.cb].signal_name
    /\ InFlight \subseteq Range(produced)
    /\ \A e \in DOMAIN emitLog :
          emitLog[e].nconn = 0 => \A r \in InFlight \cup Range(produced) : r.eid # e

\* With a callback installed on one signal, another signal was emitted and
\* made no record, and an emission of the connected signal was published.
C19_Witness ==
    /\ callbacks # << >>
    /\ \E e \in DOMAIN emitLog :
          /\ emitLog[e].nconn = 0
          /\ \A r \in Range(produced) : r.eid # e
    /\ \E k \in DOMAIN published : published[k].name = emitLog[published[k].eid].signal_name

\* C20: a connect call sends nothing: it leaves the FIFO, the event stream
\* and the record histories as they were and at most appends one callable to
\* the signal table; records are built and queued by emissions only.
C20_ConnectSendsNothing ==
    /\ [][ \A node \in NodeIds, signal_name \in SignalNames :
             ( \/ connect(node, signal_name)
               \/ \E target \in TargetsFor(node) :
                     connect_to_target(node, signal_name, target) ) =>
                /\ UNCHANGED << fifo, events_a, events_b, published, produced,
                                nEmissions, emitLog >>
                /\ \/ callbacks' = callbacks
                   \/ /\ Len(callbacks') = Len(callbacks) + 1
                      /\ SubSeq(callbacks', 1, Len(callbacks)) = callbacks ]_vars
    /\ [][ callbacks' # callbacks => UNCHANGED << fifo, events_a, events_b, published >> ]_vars
    /\ [][ (Len(fifo') > Len(fifo) \/ produced' # produced) =>
              (nEmissions' = nEmissions + 1 /\ callbacks' = callbacks) ]_vars

\* A second callable was connected after an emission: the one record of that
\* emission is still alone on the FIFO.
C20_Witness ==
    /\ Len(callbacks) = 2
    /\ callbacks[1].node_id = callbacks[2].node_id
    /\ callbacks[1].signal_name_copy = callbacks[2].signal_name_copy
    /\ Len(emitLog) = 1
    /\ emitLog[1].nconn = 1
    /\ fifo = produced
    /\ Len(fifo) = 1
    /\ lastConnect = "returned"

----------------------------------------------------------------------------
(* The translator's claims, checked under TranslateSpec. *)

\* The table of the specification: kind to type name.
TableTypeName(kind) ==
    CASE kind = "NIL" -> "Nil"
      [] kind = "BOOL" -> "Bool"
      [] kind = "INT" -> "Int"
      [] kind = "FLOAT" -> "Float"
      [] kind = "STRING" -> "String"
      [] kind = "VECTOR2" -> "Vector2"
      [] kind = "VECTOR3" -> "Vector3"
      [] kind = "OBJECT" -> "Object"
      [] OTHER -> "Unknown"

\* History: the arguments of the emission that record r was built for.
ArgsOf(r) == emitLog[r.eid].args

\* C12: the type name of every translated argument is the table's entry for
\* the variant's kind, whatever the variant holds (an object that does not
\* convert is still "Object"), and the value is always the stringification,
\* never empty, also for a kind outside the table.
C12_TypeNameByKind ==
    \A k \in DOMAIN produced :
        \A i \in DOMAIN ArgsOf(produced[k]) \cap DOMAIN produced[k].arguments :
            /\ produced[k].arguments[i].type_name = TableTypeName(ArgsOf(produced[k])[i].kind)
            /\ produced[k].arguments[i].value = stringify(ArgsOf(produced[k])[i])
            /\ produced[k].arguments[i].value # ""

\* A published record with an object that did not convert and an argument
\* of a kind outside the table.
C12_Witness ==
    \E k \in DOMAIN published :
        /\ Len(published[k].arguments) = 2
        /\ published[k].arguments[1] =
               [type_name |-> "Object", value |-> "<Object#null>", instance_id |-> 0]
        /\ published[k].arguments[2] =
               [type_name |-> "Unknown", value |-> "[]", instance_id |-> 0]

\* C13: in every published record an argument has an instance id only if its
\* type name is "Object", and an object argument that converts (id 99) is
\* translated with that id.
C13_InstanceIdOnlyForObject ==
    \A k \in DOMAIN published :
        \A i \in DOMAIN published[k].arguments :
            /\ published[k].arguments[i].instance_id # 0 =>
                   published[k].arguments[i].type_name = "Object"
            /\ (i \in DOMAIN ArgsOf(published[k])
                  /\ ArgsOf(published[k])[i] = [kind |-> "OBJECT", val |-> 99]) =>
                   published[k].arguments[i].instance_id = 99

\* A published record with an object argument carrying id 99 next to an
\* integer argument without id.
C13_Witness ==
    \E k \in DOMAIN published :
        /\ Len(published[k].arguments) = 2
        /\ published[k].arguments[1].type_name = "Object"
        /\ published[k].arguments[1].instance_id = 99
        /\ published[k].arguments[2].type_name = "Int"
        /\ published[k].arguments[2].instance_id = 0

\* C14: the record of an emission with n arguments has exactly n translated
\* arguments and the i-th is the translation of the i-th argument; an
\* emission without arguments gives an empty sequence.
C14_ArgumentsInOrder ==
    \A k \in DOMAIN produced :
        /\ Len(produced[k].arguments) = Len(ArgsOf(produced[k]))
        /\ (ArgsOf(produced[k]) = << >> => produced[k].arguments = << >>)
        /\ \A i \in DOMAIN ArgsOf(produced[k]) :
              /\ produced[k].arguments[i].type_name = TableTypeName(ArgsOf(produced[k])[i].kind)
              /\ produced[k].arguments[i].value = stringify(ArgsOf(produced[k])[i])

\* The record of an emission with (true, 7).
C14_Witness ==
    /\ Len(produced) = 1
    /\ Len(produced[1].arguments) = 2
    /\ produced[1].arguments[1] = [type_name |-> "Bool", value |-> "true", instance_id |-> 0]
    /\ produced[1].arguments[2] = [type_name |-> "Int", value |-> "7", instance_id |-> 0]

----------------------------------------------------------------------------
(* Claims about stale instance ids, checked under StaleSpec. *)

\* C17: the closure does not resolve its node: an emission on a node whose
\* id has become stale still makes exactly one record per connected callable,
\* each with the captured id as origin, and the closure returns Ok(Nil).
C17_StaleIdStillRecorded ==
    /\ [](\A e \in DOMAIN emitLog : emitLog[e].stale =>
             /\ Cardinality({ k \in DOMAIN produced : produced[k].eid = e }) = emitLog[e].nconn
             /\ \A k \in DOMAIN produced : produced[k].eid = e =>
                   /\ produced[k].origin = [instance_id |-> emitLog[e].node]
                   /\ produced[k].origin.instance_id = callbacks[produced[k].cb].node_id
                   /\ Cardinality({ j \in DOMAIN produced :
                                      /\ produced[j].eid = e
                                      /\ produced[j].cb = produced[k].cb }) = 1)
    /\ [][ produced' # produced => lastCall'.ret = "Ok(Nil)" ]_vars

\* A record built by an emission on a freed node has been published.
C17_Witness ==
    \E k \in DOMAIN published :
        /\ emitLog[published[k].eid].stale
        /\ published[k].origin.instance_id \in freed

====
